---- MODULE Spec2Model ----
(***************************************************************************)
(* Model of the ODIS signer's request handler                              *)
(*   packages/phone-number-privacy/signer/src/signing/                     *)
(*     get-partial-signature.ts : handleGetBlindedMessagePartialSig        *)
(* Every in-flight invocation of the handler occupies a slot; an action is *)
(* the synchronous stretch of code between two awaits.  The request table  *)
(* and the per-account query counter are the shared, durable state.        *)
(***************************************************************************)
EXTENDS Integers, Sequences, FiniteSets, TLC

\* ---------------------------------------------------------------- bounds
NumSlots == 2          \* handler invocations that may be in flight at once
MaxCalls == 3          \* requests received in one behaviour
MaxQuota == 2          \* largest total quota the chain reports

Slots == 1..NumSlots

\* ------------------------------------------------------- request bodies
Accounts == {"0xAA", "0xBB"}
BlindedValues == {"B1", "B2"}

ValidBodies ==
  [account : Accounts,
   blindedQueryPhoneNumber : BlindedValues,
   hashedPhoneNumber : {"absent"},
   size : {"small"},
   timestamp : {"absent"}]

\* a body failing one of the five input checks, and one failing all of them
InvalidBodies ==
  LET b == [account |-> "0xAA", blindedQueryPhoneNumber |-> "B1",
            hashedPhoneNumber |-> "absent", size |-> "small",
            timestamp |-> "absent"]
  IN {[b EXCEPT !.account = "bad"],
      [b EXCEPT !.blindedQueryPhoneNumber = "bad"],
      [b EXCEPT !.hashedPhoneNumber = "bad"],
      [b EXCEPT !.size = "oversized"],
      [b EXCEPT !.timestamp = "stale"],
      [account |-> "bad", blindedQueryPhoneNumber |-> "bad",
       hashedPhoneNumber |-> "bad", size |-> "oversized",
       timestamp |-> "stale"]}

Bodies == ValidBodies \cup InvalidBodies

NoBody ==
  [account |-> "none", blindedQueryPhoneNumber |-> "none",
   hashedPhoneNumber |-> "absent", size |-> "small", timestamp |-> "absent"]

\* The five predicates of @celo/phone-number-privacy-common.
hasValidAccountParam(requestBody) == requestBody.account \in Accounts
hasValidQueryPhoneNumberParam(requestBody) ==
  requestBody.blindedQueryPhoneNumber \in BlindedValues
phoneNumberHashIsValidIfExists(requestBody) ==
  requestBody.hashedPhoneNumber # "bad"
isBodyReasonablySized(requestBody) == requestBody.size = "small"
hasValidTimestamp(requestBody) == requestBody.timestamp # "stale"

isValidGetSignatureInput_NoTimestamp(requestBody) ==
  /\ hasValidAccountParam(requestBody)
  /\ hasValidQueryPhoneNumberParam(requestBody)
  /\ phoneNumberHashIsValidIfExists(requestBody)
  /\ isBodyReasonablySized(requestBody)

isValidGetSignatureInput(requestBody) ==
  /\ hasValidAccountParam(requestBody)
  /\ hasValidQueryPhoneNumberParam(requestBody)
  /\ phoneNumberHashIsValidIfExists(requestBody)
  /\ isBodyReasonablySized(requestBody)
  /\ hasValidTimestamp(requestBody)

\* ------------------------------------------------------------ the tags
INVALID_INPUT == "invalid input"
UNAUTHENTICATED_USER == "unauthenticated user"
EXCEEDED_QUOTA == "exceeded quota"
DUPLICATE_REQUEST_TO_GET_PARTIAL_SIG == "duplicate request"
CONTRACT_GET_FAILURE == "contract read failure"
FAILURE_TO_STORE_REQUEST == "failed to store request"
FAILURE_TO_INCREMENT_QUERY_COUNT == "failed to increment count"
UNKNOWN_ERROR == "unknown error"

\* ------------------------------------------------- results and responses
Undefined == "undefined"
BlockHeights == {500, 501}

Pending == [status |-> "pending"]
Rejected == [status |-> "rejected"]
Fulfilled(v) == [status |-> "fulfilled", value |-> v]
QuotaStatus(p, t) == [performedQueryCount |-> p, totalQuota |-> t]

NoResponse == [status |-> 0]

\* respondWithError(endpoint, response, status, error, performedQueryCount?,
\* totalQuota?, blockNumber?) of ../common/error-utils
respondWithError(status, error, pqc, tq, bn) ==
  [status |-> status, success |-> FALSE, error |-> error,
   signature |-> Undefined,
   performedQueryCount |-> pqc, totalQuota |-> tq, blockNumber |-> bn]

\* getVersion() of ../config
getVersion == "version"

\* computeBlindedSignature(blindedQueryPhoneNumber, privateKey, logger)
computeBlindedSignature(blinded) == "sig(" \o blinded \o ")"

\* errorMsgs.join(', ')
RECURSIVE join(_)
join(msgs) ==
  IF msgs = <<>> THEN ""
  ELSE IF Len(msgs) = 1 THEN msgs[1]
  ELSE msgs[1] \o ", " \o join(Tail(msgs))

\* ----------------------------------------------------------------- state
VARIABLES
  call,          \* call[s]: the locals of the handler invocation in slot s
  requestTable,  \* request records kept by ../database/wrappers/request
  counter,       \* counter[a]: durable performed-query count of account a
  nCalls,        \* requests received so far
  previous,      \* the call a resubmission repeats, as it ended
  acknowledged,  \* acknowledged[a]: calls of a whose incrementQueryCount
                 \* resolved to true
  issued,        \* issued[a]: signatures served to a for requests that were
                 \* no duplicates, where they are counted
  totalQuotaOf,  \* totalQuotaOf[a]: the quota of a, where the chain keeps it
                 \* constant
  poll           \* the locals of getFirstValidBlockscoutResponse

vars == <<call, requestTable, counter, nCalls, previous, acknowledged, issued,
          totalQuotaOf, poll>>

IdleCall ==
  [pc |-> "idle",
   body |-> NoBody,
   queryCount |-> Pending,
   blockNum |-> Pending,
   performedQueryCount |-> -1,
   totalQuota |-> -1,
   blockNumber |-> -1,
   errorMsgs |-> <<>>,
   signature |-> Undefined,
   response |-> NoResponse,
   log |-> <<>>,
   wrote |-> {}]

\* What is kept of a call for its resubmission: what the caller saw of it
\* and whether it left a request record.
NoPrevious == [status |-> 0]
Outcome(c) ==
  IF c.response.status = 200
  THEN [status |-> 200, body |-> c.body,
        success |-> c.response.success,
        signature |-> c.response.signature,
        performedQueryCount |-> c.response.performedQueryCount,
        totalQuota |-> c.response.totalQuota,
        stored |-> "requestTable" \in c.wrote,
        counted |-> "counter" \in c.wrote]
  ELSE [status |-> c.response.status, body |-> c.body]

\* A value of json.status with its JavaScript type, and a response body with
\* the number of the fetch that returned it.
StatusOne == <<"string", "1">>
NoJson == [status |-> <<"undefined", "">>, id |-> 0]
NullJson == [status |-> <<"null", "">>, id |-> 0]

\* getFirstValidBlockscoutResponse before it is called: its locals, the
\* fetches and sleeps it has invoked, the responses with status '1' it has
\* been given, and what it returned.
IdlePoll ==
  [pc |-> "idle", attemptId |-> 0, fetches |-> 0, sleeps |-> 0, valid |-> 0,
   json |-> NoJson, result |-> <<NoJson, "undefined">>]

\* the state after construction, but for the quota the chain holds
Started ==
  /\ call = [s \in Slots |-> IdleCall]
  /\ requestTable = {}
  /\ counter = [a \in Accounts |-> 0]
  /\ nCalls = 0
  /\ previous = NoPrevious
  /\ acknowledged = [a \in Accounts |-> 0]
  /\ issued = [a \in Accounts |-> 0]
  /\ poll = IdlePoll

Init ==
  /\ Started
  /\ totalQuotaOf = [a \in Accounts |-> MaxQuota]

\* entries of call[s].log
Invoke(fn) == <<"invoke", fn>>
Settle(fn, outcome) == <<"settle", fn, outcome>>
Metric(name) == <<"inc", name>>

Send(c, resp) == [c EXCEPT !.pc = "done", !.response = resp]

\* lines 181-190: the catch of the handler
catch(c) ==
  Send(c, respondWithError(500, UNKNOWN_ERROR, Undefined, Undefined, Undefined))

signMessageResponse_AlwaysSuccess(c) ==
  [status |-> 200, success |-> TRUE,
   error |-> IF Len(c.errorMsgs) # 0 THEN join(c.errorMsgs) ELSE Undefined,
   signature |-> c.signature, version |-> getVersion,
   performedQueryCount |-> c.performedQueryCount,
   totalQuota |-> c.totalQuota, blockNumber |-> c.blockNumber]

\* lines 162-180: the response of a call that was not rejected
signMessageResponse(c) ==
  IF Len(c.errorMsgs) # 0
  THEN [status |-> 200, success |-> FALSE, error |-> join(c.errorMsgs),
        signature |-> c.signature, version |-> getVersion,
        performedQueryCount |-> c.performedQueryCount,
        totalQuota |-> c.totalQuota, blockNumber |-> c.blockNumber]
  ELSE [status |-> 200, success |-> TRUE, error |-> Undefined,
        signature |-> c.signature, version |-> getVersion,
        performedQueryCount |-> c.performedQueryCount,
        totalQuota |-> c.totalQuota, blockNumber |-> c.blockNumber]

Log(c, entries) == [c EXCEPT !.log = @ \o entries]

\* ----------------------------------------------------- lines 41-66
\* A request arrives: validation, then the call of authenticateUser.
validate(c) ==
  IF ~isValidGetSignatureInput(c.body)
  THEN Send(c, respondWithError(400, INVALID_INPUT, Undefined, Undefined, Undefined))
  ELSE [Log(c, <<Invoke("authenticateUser")>>) EXCEPT !.pc = "authenticateUser"]

ReceiveRequest(s, requestBody) ==
  /\ call[s].pc \in {"idle", "done"}
  /\ nCalls < MaxCalls
  /\ nCalls' = nCalls + 1
  /\ call' = [call EXCEPT ![s] = validate([IdleCall EXCEPT !.body = requestBody])]
  /\ UNCHANGED <<requestTable, counter, acknowledged, issued, totalQuotaOf, poll>>

\* ----------------------------------------------------- lines 65-91
\* authenticateUser settles: 401 when it resolves to false, the catch when
\* it rejects, otherwise both lookups are issued under Promise.allSettled.
authenticated_ResultIgnored(c, outcome) ==
  IF outcome = "throw" THEN catch(c)
  ELSE [Log(c, <<Invoke("getRemainingQueryCount"), Invoke("getBlockNumber")>>)
          EXCEPT !.pc = "allSettled"]

authenticated(c, outcome) ==
  IF outcome = "throw" THEN catch(c)
  ELSE IF outcome = "false"
  THEN Send(c, respondWithError(401, UNAUTHENTICATED_USER, Undefined, Undefined, Undefined))
  ELSE [Log(c, <<Invoke("getRemainingQueryCount"), Invoke("getBlockNumber")>>)
          EXCEPT !.pc = "allSettled"]

AuthenticateUserSettles(s, outcome) ==
  /\ call[s].pc = "authenticateUser"
  /\ call' = [call EXCEPT ![s] =
                authenticated(Log(@, <<Settle("authenticateUser", outcome)>>), outcome)]
  /\ UNCHANGED <<requestTable, counter, nCalls, previous, acknowledged, issued,
               totalQuotaOf, poll>>

\* getRemainingQueryCount(logger, account, hashedPhoneNumber) settles.  The
\* count it reports is the account's counter in the database, or 0 when that
\* read fails (comment of lines 87-88); the quota is what the chain holds for
\* the account at that moment.
GetRemainingQueryCountSettles(s, result) ==
  /\ call[s].pc = "allSettled"
  /\ call[s].queryCount = Pending
  /\ \/ result = Rejected
     \/ \E p \in {counter[call[s].body.account], 0}, t \in 0..MaxQuota :
          result = Fulfilled(QuotaStatus(p, t))
  /\ call' = [call EXCEPT ![s] =
                [@ EXCEPT !.queryCount = result]]
  /\ UNCHANGED <<requestTable, counter, nCalls, previous, acknowledged, issued,
               totalQuotaOf, poll>>

\* getBlockNumber() settles.
GetBlockNumberSettles(s, result) ==
  /\ call[s].pc = "allSettled"
  /\ call[s].blockNum = Pending
  /\ result \in {Rejected} \cup {Fulfilled(h) : h \in BlockHeights}
  /\ call' = [call EXCEPT ![s] =
                [@ EXCEPT !.blockNum = result]]
  /\ UNCHANGED <<requestTable, counter, nCalls, previous, acknowledged, issued,
               totalQuotaOf, poll>>

\* ----------------------------------------------------- lines 93-138
readSettled_EitherFailureMasksBoth(c) ==
  LET ok == c.queryCount.status = "fulfilled" /\ c.blockNum.status = "fulfilled" IN
  [c EXCEPT
     !.performedQueryCount = IF ok THEN c.queryCount.value.performedQueryCount ELSE -1,
     !.totalQuota = IF ok THEN c.queryCount.value.totalQuota ELSE -1,
     !.blockNumber = IF ok THEN c.blockNum.value ELSE -1]

\* lines 93-109: the locals taken from the two settled results
readSettled(c) ==
  [c EXCEPT
     !.performedQueryCount =
        IF c.queryCount.status = "fulfilled"
        THEN c.queryCount.value.performedQueryCount ELSE -1,
     !.totalQuota =
        IF c.queryCount.status = "fulfilled"
        THEN c.queryCount.value.totalQuota ELSE -1,
     !.blockNumber =
        IF c.blockNum.status = "fulfilled" THEN c.blockNum.value ELSE -1]

\* lines 96-109: the flag raised by either rejected result
hadBlockchainError(c) ==
  c.queryCount.status # "fulfilled" \/ c.blockNum.status # "fulfilled"

\* the flag's consequences repeated for each rejected lookup
noteBlockchainError_OncePerFailure(c) ==
  LET once(d) == [Log(d, <<Metric("blockchainErrors")>>)
                    EXCEPT !.errorMsgs = Append(@, CONTRACT_GET_FAILURE)]
      first == IF c.queryCount.status # "fulfilled" THEN once(c) ELSE c
  IN IF c.blockNum.status # "fulfilled" THEN once(first) ELSE first

\* lines 111-114
noteBlockchainError(c) ==
  IF hadBlockchainError(c)
  THEN [Log(c, <<Metric("blockchainErrors")>>)
          EXCEPT !.errorMsgs = Append(@, CONTRACT_GET_FAILURE)]
  ELSE c

quotaExceeded_StrictlyGreater(c) ==
  c.queryCount.status = "fulfilled" /\ c.performedQueryCount > c.totalQuota

quotaExceeded_StatusUnchecked(c) == c.performedQueryCount >= c.totalQuota

quotaExceeded_OnlyWithHeight(c) ==
  /\ c.queryCount.status = "fulfilled"
  /\ c.blockNum.status = "fulfilled"
  /\ c.performedQueryCount >= c.totalQuota

\* line 116: the condition of the quota gate
quotaExceeded(c) ==
  c.queryCount.status = "fulfilled" /\ c.performedQueryCount >= c.totalQuota

generateSignature_ExistsFirst(c, engine) ==
  IF engine = "throw"
  THEN catch(Log(c, <<Invoke("getRequestExists"), Invoke("computeBlindedSignature"),
                      Settle("computeBlindedSignature", "throw")>>))
  ELSE [Log(c, <<Invoke("getRequestExists"), Invoke("computeBlindedSignature"),
                 Settle("computeBlindedSignature", "ok")>>)
          EXCEPT !.signature = computeBlindedSignature(c.body.blindedQueryPhoneNumber),
                 !.pc = "getRequestExists"]

generateSignature_ThrowSwallowed(c, engine) ==
  IF engine = "throw"
  THEN [Log(c, <<Invoke("computeBlindedSignature"),
                 Settle("computeBlindedSignature", "throw"), Invoke("getRequestExists")>>)
          EXCEPT !.pc = "getRequestExists"]
  ELSE [Log(c, <<Invoke("computeBlindedSignature"),
                 Settle("computeBlindedSignature", "ok"), Invoke("getRequestExists")>>)
          EXCEPT !.signature = computeBlindedSignature(c.body.blindedQueryPhoneNumber),
                 !.pc = "getRequestExists"]

\* lines 130-138: the signature engine, then the call of getRequestExists
generateSignature(c, engine) ==
  IF engine = "throw"
  THEN catch(Log(c, <<Invoke("computeBlindedSignature"),
                      Settle("computeBlindedSignature", "throw")>>))
  ELSE [Log(c, <<Invoke("computeBlindedSignature"),
                 Settle("computeBlindedSignature", "ok"), Invoke("getRequestExists")>>)
          EXCEPT !.signature = computeBlindedSignature(c.body.blindedQueryPhoneNumber),
                 !.pc = "getRequestExists"]

quotaGate_AfterSignature(c, engine) ==
  IF quotaExceeded(c)
  THEN Send(Log(c, <<Invoke("computeBlindedSignature")>>),
            respondWithError(403, EXCEEDED_QUOTA,
                             c.performedQueryCount, c.totalQuota, c.blockNumber))
  ELSE generateSignature(c, engine)

quotaGate_SentinelsInRejection(c, engine) ==
  IF quotaExceeded(c)
  THEN Send(c, respondWithError(403, EXCEEDED_QUOTA, -1, -1, -1))
  ELSE generateSignature(c, engine)

quotaGate_TagsAggregated(c, engine) ==
  IF quotaExceeded(c)
  THEN Send(c, respondWithError(403, join(Append(c.errorMsgs, EXCEEDED_QUOTA)),
                                c.performedQueryCount, c.totalQuota, c.blockNumber))
  ELSE generateSignature(c, engine)

\* the gate without its return: the call goes on after the rejection is sent
quotaGate_NoReturn(c, engine) ==
  IF quotaExceeded(c)
  THEN [generateSignature(c, engine) EXCEPT
          !.response = respondWithError(403, EXCEEDED_QUOTA,
                         c.performedQueryCount, c.totalQuota, c.blockNumber)]
  ELSE generateSignature(c, engine)

\* lines 116-128: the quota gate
quotaGate(c, engine) ==
  IF quotaExceeded(c)
  THEN Send(c, respondWithError(403, EXCEEDED_QUOTA,
                                c.performedQueryCount, c.totalQuota, c.blockNumber))
  ELSE generateSignature(c, engine)

\* the join resolving with the first lookup that settles
AllSettled_FirstSettled(s, engine) ==
  /\ call[s].pc = "allSettled"
  /\ call[s].queryCount # Pending \/ call[s].blockNum # Pending
  /\ call' = [call EXCEPT ![s] = quotaGate(noteBlockchainError(readSettled(@)), engine)]
  /\ UNCHANGED <<requestTable, counter, nCalls, previous, acknowledged, issued,
               totalQuotaOf, poll>>

\* Promise.allSettled resolves once both lookups have settled.
AllSettled(s, engine) ==
  /\ call[s].pc = "allSettled"
  /\ call[s].queryCount # Pending
  /\ call[s].blockNum # Pending
  /\ call' = [call EXCEPT ![s] = quotaGate(noteBlockchainError(readSettled(@)), engine)]
  /\ UNCHANGED <<requestTable, counter, nCalls, previous, acknowledged, issued,
               totalQuotaOf, poll>>

\* ----------------------------------------------------- lines 138-180
requestExists_DuplicateCounted(c, outcome) ==
  IF outcome = "throw" THEN catch(c)
  ELSE IF outcome = "true"
  THEN [Log([c EXCEPT !.errorMsgs = Append(@, DUPLICATE_REQUEST_TO_GET_PARTIAL_SIG)],
            <<Metric("duplicateRequests"), Invoke("incrementQueryCount")>>)
          EXCEPT !.pc = "incrementQueryCount"]
  ELSE [Log(c, <<Invoke("storeRequest")>>) EXCEPT !.pc = "storeRequest"]

requestExists_DuplicateUntagged(c, outcome) ==
  IF outcome = "throw" THEN catch(c)
  ELSE IF outcome = "true"
  THEN LET d == Log(c, <<Metric("duplicateRequests")>>)
       IN Send(d, signMessageResponse(d))
  ELSE [Log(c, <<Invoke("storeRequest")>>) EXCEPT !.pc = "storeRequest"]

\* lines 138-149: getRequestExists settles
requestExists(c, outcome) ==
  IF outcome = "throw" THEN catch(c)
  ELSE IF outcome = "true"
  THEN LET d == [Log(c, <<Metric("duplicateRequests")>>)
                   EXCEPT !.errorMsgs = Append(@, DUPLICATE_REQUEST_TO_GET_PARTIAL_SIG)]
       IN Send(d, signMessageResponse(d))
  ELSE [Log(c, <<Invoke("storeRequest")>>) EXCEPT !.pc = "storeRequest"]

\* the exists check taken under a lock held by the calls that are writing
GetRequestExistsSettles_WaitsForWriters(s, outcome) ==
  /\ call[s].pc = "getRequestExists"
  /\ \A t \in Slots \ {s} : call[t].pc \notin {"storeRequest", "incrementQueryCount"}
  /\ outcome \in {"throw", IF call[s].body \in requestTable THEN "true" ELSE "false"}
  /\ call' = [call EXCEPT ![s] =
                requestExists(Log(@, <<Settle("getRequestExists", outcome)>>), outcome)]
  /\ UNCHANGED <<requestTable, counter, nCalls, previous, acknowledged, issued,
               totalQuotaOf, poll>>

GetRequestExistsSettles(s, outcome) ==
  /\ call[s].pc = "getRequestExists"
  /\ outcome \in {"throw", IF call[s].body \in requestTable THEN "true" ELSE "false"}
  /\ call' = [call EXCEPT ![s] =
                requestExists(Log(@, <<Settle("getRequestExists", outcome)>>), outcome)]
  /\ UNCHANGED <<requestTable, counter, nCalls, previous, acknowledged, issued,
               totalQuotaOf, poll>>

requestStored_AbortsOnFailure(c, outcome) ==
  IF outcome = "throw" THEN catch(c)
  ELSE IF outcome = "false"
  THEN LET d == [c EXCEPT !.errorMsgs = Append(@, FAILURE_TO_STORE_REQUEST)]
       IN Send(d, signMessageResponse(d))
  ELSE [Log([c EXCEPT !.wrote = @ \cup {"requestTable"}],
            <<Invoke("incrementQueryCount")>>)
          EXCEPT !.pc = "incrementQueryCount"]

\* lines 149-153: storeRequest settles
requestStored(c, outcome) ==
  IF outcome = "throw" THEN catch(c)
  ELSE [Log(IF outcome = "false"
            THEN [c EXCEPT !.errorMsgs = Append(@, FAILURE_TO_STORE_REQUEST)]
            ELSE [c EXCEPT !.wrote = @ \cup {"requestTable"}],
            <<Invoke("incrementQueryCount")>>)
          EXCEPT !.pc = "incrementQueryCount"]

StoreRequestSettles_Overwrites(s, outcome) ==
  /\ call[s].pc = "storeRequest"
  /\ outcome \in {"true", "false", "throw"}
  /\ requestTable' = IF outcome = "true" THEN {call[s].body} ELSE requestTable
  /\ call' = [call EXCEPT ![s] =
                requestStored(Log(@, <<Settle("storeRequest", outcome)>>), outcome)]
  /\ UNCHANGED <<counter, nCalls, previous, acknowledged, issued, totalQuotaOf, poll>>

StoreRequestSettles(s, outcome) ==
  /\ call[s].pc = "storeRequest"
  /\ outcome \in {"true", "false", "throw"}
  /\ requestTable' = IF outcome = "true"
                     THEN requestTable \cup {call[s].body} ELSE requestTable
  /\ call' = [call EXCEPT ![s] =
                requestStored(Log(@, <<Settle("storeRequest", outcome)>>), outcome)]
  /\ UNCHANGED <<counter, nCalls, previous, acknowledged, issued, totalQuotaOf, poll>>

countIncremented_TagFirst(c, outcome) ==
  IF outcome = "throw" THEN catch(c)
  ELSE LET d == IF outcome = "false"
                THEN [c EXCEPT !.errorMsgs = <<FAILURE_TO_INCREMENT_QUERY_COUNT>> \o @]
                ELSE [c EXCEPT !.performedQueryCount = @ + 1,
                               !.wrote = @ \cup {"counter"}]
       IN Send(d, signMessageResponse(d))

countIncremented_NoLocalIncrement(c, outcome) ==
  IF outcome = "throw" THEN catch(c)
  ELSE LET d == IF outcome = "false"
                THEN [c EXCEPT !.errorMsgs = Append(@, FAILURE_TO_INCREMENT_QUERY_COUNT)]
                ELSE [c EXCEPT !.wrote = @ \cup {"counter"}]
       IN Send(d, signMessageResponse(d))

countIncremented_FailureIsFatal(c, outcome) ==
  IF outcome = "throw" \/ outcome = "false" THEN catch(c)
  ELSE LET d == [c EXCEPT !.performedQueryCount = @ + 1,
                          !.wrote = @ \cup {"counter"}]
       IN Send(d, signMessageResponse(d))

countIncremented_LocalIncrementAlways(c, outcome) ==
  IF outcome = "throw" THEN catch(c)
  ELSE LET d == IF outcome = "false"
                THEN [c EXCEPT !.errorMsgs = Append(@, FAILURE_TO_INCREMENT_QUERY_COUNT),
                               !.performedQueryCount = @ + 1]
                ELSE [c EXCEPT !.performedQueryCount = @ + 1,
                               !.wrote = @ \cup {"counter"}]
       IN Send(d, signMessageResponse(d))

\* lines 153-180: incrementQueryCount settles, and the response is sent
countIncremented(c, outcome) ==
  IF outcome = "throw" THEN catch(c)
  ELSE LET d == IF outcome = "false"
                THEN [c EXCEPT !.errorMsgs = Append(@, FAILURE_TO_INCREMENT_QUERY_COUNT)]
                ELSE [c EXCEPT !.performedQueryCount = @ + 1,
                               !.wrote = @ \cup {"counter"}]
       IN Send(d, signMessageResponse(d))

\* the counter written back from the count the call read, not incremented in place
IncrementQueryCountSettles_LostUpdate(s, outcome) ==
  /\ call[s].pc = "incrementQueryCount"
  /\ outcome \in {"true", "false", "throw"}
  /\ counter' = IF outcome = "true"
                THEN [counter EXCEPT ![call[s].body.account] =
                                        call[s].performedQueryCount + 1]
                ELSE counter
  /\ acknowledged' = IF outcome = "true"
                     THEN [acknowledged EXCEPT ![call[s].body.account] = @ + 1]
                     ELSE acknowledged
  /\ call' = [call EXCEPT ![s] =
                countIncremented(Log(@, <<Settle("incrementQueryCount", outcome)>>), outcome)]
  /\ UNCHANGED <<requestTable, nCalls, previous, totalQuotaOf, poll>>

IncrementQueryCountSettles(s, outcome) ==
  /\ call[s].pc = "incrementQueryCount"
  /\ outcome \in {"true", "false", "throw"}
  /\ counter' = IF outcome = "true"
                THEN [counter EXCEPT ![call[s].body.account] = @ + 1] ELSE counter
  /\ acknowledged' = IF outcome = "true"
                     THEN [acknowledged EXCEPT ![call[s].body.account] = @ + 1]
                     ELSE acknowledged
  /\ call' = [call EXCEPT ![s] =
                countIncremented(Log(@, <<Settle("incrementQueryCount", outcome)>>), outcome)]
  /\ UNCHANGED <<requestTable, nCalls, previous, totalQuotaOf, poll>>

\* ------------------------------------------------------- specification
\* The call that a request arriving in slot s repeats: the one that just
\* ended there, when it carried the same body.
Repeated(s, requestBody) ==
  IF call[s].pc = "done" /\ call[s].body = requestBody
  THEN Outcome(call[s]) ELSE NoPrevious

\* The steps of the handler invocation in slot s after its request arrived.
Settles(s) ==
  \/ \E outcome \in {"true", "false", "throw"} : AuthenticateUserSettles(s, outcome)
  \/ \E result \in {Rejected} \cup
                   {Fulfilled(QuotaStatus(p, t)) : p \in 0..MaxCalls, t \in 0..MaxQuota} :
       GetRemainingQueryCountSettles(s, result)
  \/ \E result \in {Rejected} \cup {Fulfilled(h) : h \in BlockHeights} :
       GetBlockNumberSettles(s, result)
  \/ \E engine \in {"ok", "throw"} : AllSettled(s, engine)
  \/ \E outcome \in {"true", "false", "throw"} : GetRequestExistsSettles(s, outcome)
  \/ \E outcome \in {"true", "false", "throw"} : StoreRequestSettles(s, outcome)
  \/ \E outcome \in {"true", "false", "throw"} :
       IncrementQueryCountSettles(s, outcome) /\ UNCHANGED issued

\* Requests handled one after the other: a single invocation is in flight.
Step(s) ==
  \/ \E requestBody \in Bodies :
       ReceiveRequest(s, requestBody) /\ UNCHANGED previous
  \/ Settles(s)

Next == Step(1)

Spec == Init /\ [][Next]_vars

\* The same, keeping of a call what its resubmission is compared with.
ResubmitStep(s) ==
  \/ \E requestBody \in Bodies :
       ReceiveRequest(s, requestBody) /\ previous' = Repeated(s, requestBody)
  \/ Settles(s)

ResubmitNext == ResubmitStep(1)

ResubmitSpec == Init /\ [][ResubmitNext]_vars

\* Requests of one account handled concurrently: the invocations in all
\* slots interleave at their awaits.  Every collaborator answers, the quota
\* lookup reports the account's counter, and the writes may fail.
ConcurrentBodies == {b \in ValidBodies : b.account = "0xAA"}

ConcurrentStep(s) ==
  \/ \E requestBody \in ConcurrentBodies :
       ReceiveRequest(s, requestBody) /\ UNCHANGED previous
  \/ AuthenticateUserSettles(s, "true")
  \/ \E t \in 0..MaxQuota :
       GetRemainingQueryCountSettles(
         s, Fulfilled(QuotaStatus(counter[call[s].body.account], t)))
  \/ \E h \in BlockHeights : GetBlockNumberSettles(s, Fulfilled(h))
  \/ AllSettled(s, "ok")
  \/ \E outcome \in {"true", "false"} : GetRequestExistsSettles(s, outcome)
  \/ \E outcome \in {"true", "false"} : StoreRequestSettles(s, outcome)
  \/ \E outcome \in {"true", "false"} :
       IncrementQueryCountSettles(s, outcome) /\ UNCHANGED issued

ConcurrentNext == \E s \in Slots : ConcurrentStep(s)

ConcurrentSpec == Init /\ [][ConcurrentNext]_vars

\* ==================================================================
\* Properties
\* ==================================================================
Invoked(c, fn) == \E i \in 1..Len(c.log) : c.log[i] = Invoke(fn)
Settled(c, fn, outcome) == \E i \in 1..Len(c.log) : c.log[i] = Settle(fn, outcome)
Incremented(c, name) == \E i \in 1..Len(c.log) : c.log[i] = Metric(name)
\* the first position of an entry in a log, 0 when it is absent
IndexOf(c, entry) ==
  IF \E i \in 1..Len(c.log) : c.log[i] = entry
  THEN CHOOSE i \in 1..Len(c.log) :
         c.log[i] = entry /\ \A j \in 1..(i - 1) : c.log[j] # entry
  ELSE 0
Before(c, first, second) ==
  IndexOf(c, first) # 0 /\ IndexOf(c, first) < IndexOf(c, second)
HasTag(c, tag) == \E i \in 1..Len(c.errorMsgs) : c.errorMsgs[i] = tag

ResourceWork ==
  {"getRemainingQueryCount", "getBlockNumber", "computeBlindedSignature",
   "getRequestExists", "storeRequest", "incrementQueryCount"}

\* C1: when authenticateUser resolves to false the call answers 401
\* 'unauthenticated user' and invokes neither lookup, nor the signature
\* engine, nor any store operation; in every call each of these is invoked
\* only after authenticateUser has resolved to true.
C1_UnauthenticatedIsRejectedFirst ==
  \A s \in Slots :
    LET c == call[s] IN
    /\ Settled(c, "authenticateUser", "false") =>
         /\ c.pc = "done"
         /\ c.response.status = 401
         /\ c.response.error = UNAUTHENTICATED_USER
         /\ \A fn \in ResourceWork : ~Invoked(c, fn)
         /\ c.wrote = {}
    /\ \A fn \in ResourceWork :
         Invoked(c, fn) =>
           Before(c, Settle("authenticateUser", "true"), Invoke(fn))

C1_Witness ==
  \E s \in Slots :
    /\ isValidGetSignatureInput(call[s].body)
    /\ Settled(call[s], "authenticateUser", "false")
    /\ call[s].response.status = 401

\* C2: a request failing any of the five input checks is answered 400
\* 'invalid input'; nothing is invoked for it and it writes neither the
\* request table nor the counter.
C2_InvalidInputIsRejectedFirst ==
  \A s \in Slots :
    LET c == call[s] IN
    (/\ c.pc # "idle"
     /\ \/ ~hasValidAccountParam(c.body)
        \/ ~hasValidQueryPhoneNumberParam(c.body)
        \/ ~phoneNumberHashIsValidIfExists(c.body)
        \/ ~isBodyReasonablySized(c.body)
        \/ ~hasValidTimestamp(c.body))
    => /\ c.pc = "done"
       /\ c.response.status = 400
       /\ c.response.error = INVALID_INPUT
       /\ c.log = <<>>
       /\ c.wrote = {}

C2_Witness ==
  \E s \in Slots :
    LET c == call[s] IN
    /\ hasValidAccountParam(c.body)
    /\ hasValidQueryPhoneNumberParam(c.body)
    /\ phoneNumberHashIsValidIfExists(c.body)
    /\ isBodyReasonablySized(c.body)
    /\ ~hasValidTimestamp(c.body)
    /\ c.response.status = 400
    /\ requestTable # {}

\* a call whose two lookups have been joined
PastGate(c) ==
  Invoked(c, "getRemainingQueryCount") /\ c.pc # "allSettled"

\* C3: the quota gate answers 403 'exceeded quota' exactly when the quota
\* lookup was fulfilled with performedQueryCount >= totalQuota; equality
\* rejects.
C3_QuotaGateBoundary ==
  \A s \in Slots :
    LET c == call[s] IN
    PastGate(c) =>
      ((c.response.status = 403 /\ c.response.error = EXCEEDED_QUOTA)
         <=> (/\ c.queryCount.status = "fulfilled"
              /\ c.queryCount.value.performedQueryCount
                   >= c.queryCount.value.totalQuota))

C3_Witness ==
  \E s \in Slots :
    LET c == call[s] IN
    /\ PastGate(c)
    /\ c.queryCount.status = "fulfilled"
    /\ c.queryCount.value.totalQuota > 0
    /\ c.queryCount.value.performedQueryCount = c.queryCount.value.totalQuota
    /\ c.response.status = 403

\* C4: a call answered 403 has invoked neither the signature engine nor a
\* store operation and has written neither the request table nor the counter.
C4_QuotaRejectionIsTerminal ==
  \A s \in Slots :
    LET c == call[s] IN
    c.response.status = 403 =>
      /\ c.pc = "done"
      /\ \A fn \in {"computeBlindedSignature", "getRequestExists",
                    "storeRequest", "incrementQueryCount"} : ~Invoked(c, fn)
      /\ c.signature = Undefined
      /\ c.wrote = {}

C4_Witness ==
  \E s \in Slots :
    /\ call[s].response.status = 403
    /\ requestTable # {}
    /\ counter[call[s].body.account] > 0

\* C5: when getRequestExists resolves to true the call invokes neither
\* storeRequest nor incrementQueryCount, writes nothing, collects the
\* 'duplicate request' tag and answers 200 with the signature it computed.
C5_DuplicateIsServedNotCounted ==
  \A s \in Slots :
    LET c == call[s] IN
    Settled(c, "getRequestExists", "true") =>
      /\ c.pc = "done"
      /\ c.response.status = 200
      /\ c.response.signature = computeBlindedSignature(c.body.blindedQueryPhoneNumber)
      /\ ~Invoked(c, "storeRequest")
      /\ ~Invoked(c, "incrementQueryCount")
      /\ c.wrote = {}
      /\ c.errorMsgs # <<>>
      /\ c.errorMsgs[Len(c.errorMsgs)] = DUPLICATE_REQUEST_TO_GET_PARTIAL_SIG
      /\ c.response.error = join(c.errorMsgs)

C5_Witness ==
  \E s \in Slots :
    /\ Settled(call[s], "getRequestExists", "true")
    /\ call[s].response.status = 200
    /\ call[s].body \in requestTable

\* C6: in a call getRequestExists is invoked after the signature has been
\* computed, storeRequest and incrementQueryCount only after it resolved to
\* false; a call that saw its request as a duplicate writes nothing.
C6_ExistsCheckBetweenSignatureAndWrites ==
  \A s \in Slots :
    LET c == call[s] IN
    /\ Invoked(c, "getRequestExists") =>
         /\ Before(c, Invoke("computeBlindedSignature"), Invoke("getRequestExists"))
         /\ c.signature # Undefined
    /\ \A fn \in {"storeRequest", "incrementQueryCount"} :
         Invoked(c, fn) =>
           Before(c, Settle("getRequestExists", "false"), Invoke(fn))
    /\ c.wrote # {} => Settled(c, "getRequestExists", "false")
    /\ Settled(c, "getRequestExists", "true") =>
         /\ c.wrote = {}
         /\ ~Invoked(c, "storeRequest")
         /\ ~Invoked(c, "incrementQueryCount")

C6_Witness ==
  \E s \in Slots :
    /\ Invoked(call[s], "incrementQueryCount")
    /\ call[s].wrote = {"requestTable", "counter"}

\* the degradations of a call, read off its settled results
Degraded(c) ==
  \/ c.queryCount.status = "rejected"
  \/ c.blockNum.status = "rejected"
  \/ Settled(c, "getRequestExists", "true")
  \/ Settled(c, "storeRequest", "false")
  \/ Settled(c, "incrementQueryCount", "false")

\* C7: in a 200 response success is true exactly when the call collected no
\* tag, and the error field is present exactly when success is false.
C7_SuccessIffNoTag ==
  \A s \in Slots :
    LET c == call[s] IN
    c.response.status = 200 =>
      /\ c.response.success <=> ~Degraded(c)
      /\ c.response.success <=> (c.errorMsgs = <<>>)
      /\ (c.response.error # Undefined) <=> ~c.response.success

C7_Witness ==
  \E s \in Slots :
    /\ call[s].response.status = 200
    /\ Len(call[s].errorMsgs) = 3
    /\ ~call[s].response.success
    /\ call[s].response.error # Undefined

\* the tags a call is to collect, in the order of its steps
ExpectedTags(c) ==
  (IF c.queryCount.status = "rejected" \/ c.blockNum.status = "rejected"
   THEN <<CONTRACT_GET_FAILURE>> ELSE <<>>)
  \o (IF Settled(c, "getRequestExists", "true")
      THEN <<DUPLICATE_REQUEST_TO_GET_PARTIAL_SIG>> ELSE <<>>)
  \o (IF Settled(c, "storeRequest", "false")
      THEN <<FAILURE_TO_STORE_REQUEST>> ELSE <<>>)
  \o (IF Settled(c, "incrementQueryCount", "false")
      THEN <<FAILURE_TO_INCREMENT_QUERY_COUNT>> ELSE <<>>)

\* C8, as stated: when the quota lookup is rejected the call is never
\* answered 403 and the error of its 200 response is the contract-read tag
\* alone.
C8_Original ==
  \A s \in Slots :
    LET c == call[s] IN
    (PastGate(c) /\ c.queryCount.status = "rejected") =>
      /\ c.response.status # 403
      /\ c.response.status = 200 => c.response.error = CONTRACT_GET_FAILURE

\* C8, amended: when the quota lookup is rejected the call is never answered
\* 403, and the error of its 200 response starts with the contract-read tag,
\* which occurs once, followed by the tags of the later degradations; it is
\* the only tag when the request is no duplicate and both writes succeed.
C8_QuotaFailureNeverRejects ==
  \A s \in Slots :
    LET c == call[s] IN
    (PastGate(c) /\ c.queryCount.status = "rejected") =>
      /\ c.response.status # 403
      /\ c.response.status = 200 =>
           /\ c.response.error = join(ExpectedTags(c))
           /\ ExpectedTags(c)[1] = CONTRACT_GET_FAILURE
           /\ (Settled(c, "storeRequest", "true")
                 /\ Settled(c, "incrementQueryCount", "true"))
                => c.response.error = CONTRACT_GET_FAILURE

C8_Witness ==
  \E s \in Slots :
    LET c == call[s] IN
    /\ c.queryCount.status = "rejected"
    /\ c.response.status = 200
    /\ Settled(c, "getRequestExists", "true")
    /\ c.response.error =
         join(<<CONTRACT_GET_FAILURE, DUPLICATE_REQUEST_TO_GET_PARTIAL_SIG>>)

\* C9: a 200 response carries performedQueryCount = -1 and totalQuota = -1
\* whenever the quota lookup was rejected, and blockNumber = -1 whenever the
\* chain-height lookup was rejected.
C9_SentinelsInResponse ==
  \A s \in Slots :
    LET c == call[s] IN
    c.response.status = 200 =>
      /\ c.queryCount.status = "rejected" =>
           c.response.performedQueryCount = -1 /\ c.response.totalQuota = -1
      /\ c.blockNum.status = "rejected" => c.response.blockNumber = -1

\* the tag lists a handler can join, and the tags an error field carries
TagLists ==
  {a \o b \o d \o e :
     a \in {<<>>, <<CONTRACT_GET_FAILURE>>},
     b \in {<<>>, <<DUPLICATE_REQUEST_TO_GET_PARTIAL_SIG>>},
     d \in {<<>>, <<FAILURE_TO_STORE_REQUEST>>},
     e \in {<<>>, <<FAILURE_TO_INCREMENT_QUERY_COUNT>>}}
CarriesTag(resp, tag) ==
  \E msgs \in TagLists :
    /\ msgs # <<>>
    /\ resp.error = join(msgs)
    /\ \E i \in 1..Len(msgs) : msgs[i] = tag

HeightOnlyFailed(c) ==
  /\ PastGate(c)
  /\ c.blockNum.status = "rejected"
  /\ c.queryCount.status = "fulfilled"

\* C10, as stated: when the chain-height lookup is rejected and the quota
\* lookup fulfilled, the response carries the performedQueryCount and
\* totalQuota of the quota lookup, the contract-read tag and blockNumber = -1.
C10_Original ==
  \A s \in Slots :
    LET c == call[s] IN
    (HeightOnlyFailed(c) /\ c.response.status \in {200, 403}) =>
      /\ c.response.performedQueryCount = c.queryCount.value.performedQueryCount
      /\ c.response.totalQuota = c.queryCount.value.totalQuota
      /\ CarriesTag(c.response, CONTRACT_GET_FAILURE)
      /\ c.response.blockNumber = -1

\* C10, amended: when the chain-height lookup is rejected and the quota
\* lookup fulfilled, a 200 response carries the totalQuota of the quota
\* lookup, its performedQueryCount (plus one when incrementQueryCount
\* resolved to true), the contract-read tag and blockNumber = -1; a 403
\* response carries the two values of the quota lookup and blockNumber = -1
\* under the 'exceeded quota' tag alone.
C10_HeightFailureKeepsQuota ==
  \A s \in Slots :
    LET c == call[s] IN
    HeightOnlyFailed(c) =>
      /\ c.response.status = 200 =>
           /\ c.response.totalQuota = c.queryCount.value.totalQuota
           /\ c.response.performedQueryCount =
                c.queryCount.value.performedQueryCount
                  + (IF Settled(c, "incrementQueryCount", "true") THEN 1 ELSE 0)
           /\ CarriesTag(c.response, CONTRACT_GET_FAILURE)
           /\ c.response.blockNumber = -1
      /\ c.response.status = 403 =>
           /\ c.response.totalQuota = c.queryCount.value.totalQuota
           /\ c.response.performedQueryCount = c.queryCount.value.performedQueryCount
           /\ c.response.error = EXCEEDED_QUOTA
           /\ c.response.blockNumber = -1

C10_Witness ==
  \E s \in Slots :
    LET c == call[s] IN
    /\ HeightOnlyFailed(c)
    /\ c.response.status = 200
    /\ c.queryCount.value.performedQueryCount > 0
    /\ c.response.performedQueryCount = c.queryCount.value.performedQueryCount + 1
    /\ c.response.error = CONTRACT_GET_FAILURE

\* a call none of whose collaborators failed and whose quota lookup reported
\* the account's counter
RanClean(c) ==
  /\ c.pc = "done"
  /\ Settled(c, "authenticateUser", "true")
  /\ c.queryCount.status = "fulfilled"
  /\ c.queryCount.value.performedQueryCount = counter[c.body.account]
  /\ c.blockNum.status = "fulfilled"
  /\ \A fn \in ResourceWork : ~Settled(c, fn, "throw")

\* C11, as stated: the second of two calls with the same body is answered
\* with the signature of the first and with the duplicate-request tag,
\* carrying signature, version, performedQueryCount, totalQuota, blockNumber.
C11_Original ==
  \A s \in Slots :
    LET c == call[s] IN
    (/\ previous.status = 200
     /\ previous.stored
     /\ RanClean(c)
     /\ c.queryCount.value.totalQuota = previous.totalQuota) =>
      /\ c.response.status = 200
      /\ c.response.signature = previous.signature
      /\ CarriesTag(c.response, DUPLICATE_REQUEST_TO_GET_PARTIAL_SIG)

\* C11, amended: when two calls with the same body are both answered 200
\* they carry the same signature; when moreover the first stored its request
\* record, the second response has the duplicate-request tag and carries
\* signature, version, performedQueryCount, totalQuota and blockNumber.  (A
\* second call stopped by the quota gate is answered 403, without signature.)
C11_ResubmissionIsIdempotent ==
  \A s \in Slots :
    LET c == call[s] IN
    (previous.status = 200 /\ c.response.status = 200) =>
      /\ c.body = previous.body
      /\ c.response.signature = previous.signature
      /\ c.response.signature # Undefined
      /\ previous.stored =>
           /\ CarriesTag(c.response, DUPLICATE_REQUEST_TO_GET_PARTIAL_SIG)
           /\ c.response.version = getVersion
           /\ c.response.performedQueryCount \in Int
           /\ c.response.totalQuota \in Int
           /\ c.response.blockNumber \in Int

C11_Witness ==
  \E s \in Slots :
    LET c == call[s] IN
    /\ previous.status = 200
    /\ previous.stored
    /\ c.response.status = 200
    /\ c.response.signature = previous.signature
    /\ c.response.error = DUPLICATE_REQUEST_TO_GET_PARTIAL_SIG

Count(c, entry) == Cardinality({i \in 1..Len(c.log) : c.log[i] = entry})
Returned(c, fn) == Settled(c, fn, "true") \/ Settled(c, fn, "false")

\* C13: for a request that is no duplicate storeRequest and
\* incrementQueryCount are each invoked once, the second whatever the first
\* returned; a false result of either adds its own tag, and in all four
\* combinations of results the call is answered 200.
C13_WritesAreIndependent ==
  \A s \in Slots :
    LET c == call[s] IN
    /\ Count(c, Invoke("storeRequest")) <= 1
    /\ Count(c, Invoke("incrementQueryCount")) <= 1
    /\ Settled(c, "getRequestExists", "false") => Count(c, Invoke("storeRequest")) = 1
    /\ Returned(c, "storeRequest") => Count(c, Invoke("incrementQueryCount")) = 1
    /\ Returned(c, "incrementQueryCount") =>
         /\ c.pc = "done"
         /\ c.response.status = 200
         /\ Settled(c, "storeRequest", "false")
              <=> CarriesTag(c.response, FAILURE_TO_STORE_REQUEST)
         /\ Settled(c, "incrementQueryCount", "false")
              <=> CarriesTag(c.response, FAILURE_TO_INCREMENT_QUERY_COUNT)

C13_Witness ==
  \E s \in Slots :
    LET c == call[s] IN
    /\ Settled(c, "storeRequest", "false")
    /\ Settled(c, "incrementQueryCount", "true")
    /\ c.response.status = 200
    /\ c.response.error = FAILURE_TO_STORE_REQUEST

\* the tags joined by the separator, written out
Separated(msgs) ==
  IF Len(msgs) = 0 THEN Undefined
  ELSE IF Len(msgs) = 1 THEN msgs[1]
  ELSE IF Len(msgs) = 2 THEN msgs[1] \o ", " \o msgs[2]
  ELSE IF Len(msgs) = 3 THEN msgs[1] \o ", " \o msgs[2] \o ", " \o msgs[3]
  ELSE msgs[1] \o ", " \o msgs[2] \o ", " \o msgs[3] \o ", " \o msgs[4]

\* C14: the error of a 200 response is the collected tags joined by ', ' in
\* the order contract-read failure, duplicate request, store failure,
\* increment failure.
C14_ErrorKeepsCollectionOrder ==
  \A s \in Slots :
    LET c == call[s] IN
    c.response.status = 200 =>
      /\ c.response.error = Separated(ExpectedTags(c))
      /\ c.errorMsgs = ExpectedTags(c)

C14_Witness ==
  \E s \in Slots :
    /\ call[s].response.status = 200
    /\ call[s].response.error =
         "contract read failure, failed to store request, failed to increment count"

\* a call in which every collaborator succeeded on a fresh request within quota
AllSucceeded(c) ==
  /\ Settled(c, "authenticateUser", "true")
  /\ c.queryCount.status = "fulfilled"
  /\ c.queryCount.value.performedQueryCount < c.queryCount.value.totalQuota
  /\ c.blockNum.status = "fulfilled"
  /\ Settled(c, "computeBlindedSignature", "ok")
  /\ Settled(c, "getRequestExists", "false")
  /\ Settled(c, "storeRequest", "true")
  /\ Settled(c, "incrementQueryCount", "true")

C15_Response ==
  \A s \in Slots :
    LET c == call[s] IN
    AllSucceeded(c) =>
      /\ c.pc = "done"
      /\ c.response =
           [status |-> 200, success |-> TRUE, error |-> Undefined,
            signature |-> computeBlindedSignature(c.body.blindedQueryPhoneNumber),
            version |-> getVersion,
            performedQueryCount |-> c.queryCount.value.performedQueryCount + 1,
            totalQuota |-> c.queryCount.value.totalQuota,
            blockNumber |-> c.blockNum.value]
      /\ c.body \in requestTable

C15_Effects ==
  \A s \in Slots :
    /\ (call[s].pc = "storeRequest" /\ Settled(call'[s], "storeRequest", "true")) =>
         /\ requestTable' = requestTable \cup {call[s].body}
         /\ counter' = counter
    /\ (call[s].pc = "incrementQueryCount"
          /\ Settled(call'[s], "incrementQueryCount", "true")) =>
         /\ counter' = [counter EXCEPT ![call[s].body.account] = @ + 1]
         /\ requestTable' = requestTable

\* C15: when every collaborator succeeds, the quota lookup returns p < q,
\* the chain height is h and the request is no duplicate, the call is
\* answered 200 with success true, no error, performedQueryCount = p + 1,
\* totalQuota = q, blockNumber = h and the signature; the request record is
\* stored and the account's counter grows by exactly one.
C15_AllSucceed == [](C15_Response) /\ [][C15_Effects]_vars

C15_Witness ==
  \E s \in Slots :
    LET c == call[s] IN
    /\ AllSucceeded(c)
    /\ c.response.status = 200
    /\ c.response.performedQueryCount = 2
    /\ c.response.blockNumber = 500
    /\ counter[c.body.account] = 2

\* two calls of one account, with different bodies, that both read a count
\* one below the same quota, were both served and both incremented
Raced(c, d) ==
  /\ c.body.account = d.body.account
  /\ c.body # d.body
  /\ c.queryCount.status = "fulfilled"
  /\ d.queryCount.status = "fulfilled"
  /\ c.queryCount.value = d.queryCount.value
  /\ c.queryCount.value.performedQueryCount = c.queryCount.value.totalQuota - 1
  /\ c.response.status = 200
  /\ d.response.status = 200
  /\ c.response.signature # Undefined
  /\ d.response.signature # Undefined
  /\ Settled(c, "incrementQueryCount", "true")
  /\ Settled(d, "incrementQueryCount", "true")

\* C16: two concurrent calls of one account can both read a count one below
\* the quota, both pass the gate, both be served and both increment; the
\* counter then stands above the quota.
C16_RaceOvershootsQuota ==
  \A s \in Slots, t \in Slots :
    Raced(call[s], call[t]) =>
      counter[call[s].body.account] > call[s].queryCount.value.totalQuota

C16_Witness ==
  \E s \in Slots, t \in Slots :
    /\ Raced(call[s], call[t])
    /\ call[s].queryCount.value.totalQuota > 0
    /\ counter[call[s].body.account] = call[s].queryCount.value.totalQuota + 1

ThrowingCollaborators ==
  {"authenticateUser", "getRemainingQueryCount", "getBlockNumber",
   "getRequestExists", "storeRequest", "incrementQueryCount"}

\* C17: an exception of a collaborator other than the signature engine does
\* not get past its step; a call is answered 500 only when the engine threw.
C17_OnlyEngineFailureIs500 ==
  \A s \in Slots :
    LET c == call[s] IN
    /\ c.response.status = 500 => Settled(c, "computeBlindedSignature", "throw")
    /\ \A fn \in ThrowingCollaborators :
         Settled(c, fn, "throw") => c.response.status # 500

\* C18: when the signature engine throws the call is answered 500 'unknown
\* error'; the engine was invoked once, the exists check and the two writes
\* not at all, and the call wrote nothing.
C18_EngineFailureIsFatal ==
  \A s \in Slots :
    LET c == call[s] IN
    /\ Count(c, Invoke("computeBlindedSignature")) <= 1
    /\ Settled(c, "computeBlindedSignature", "throw") =>
         /\ c.pc = "done"
         /\ c.response.status = 500
         /\ c.response.error = UNKNOWN_ERROR
         /\ \A fn \in {"getRequestExists", "storeRequest", "incrementQueryCount"} :
              ~Invoked(c, fn)
         /\ c.wrote = {}

C18_Witness ==
  \E s \in Slots :
    /\ Settled(call[s], "computeBlindedSignature", "throw")
    /\ call[s].response.status = 500
    /\ requestTable # {}

\* C19: once the signature is computed, a failed quota or height lookup, a
\* duplicate, a false storeRequest and a false incrementQueryCount, alone or
\* together, do not withhold it: the call is answered 200 with the signature.
C19_DegradationKeepsSignature ==
  \A s \in Slots :
    LET c == call[s] IN
    Settled(c, "computeBlindedSignature", "ok") =>
      /\ c.signature = computeBlindedSignature(c.body.blindedQueryPhoneNumber)
      /\ (c.pc = "done"
            /\ \A fn \in {"getRequestExists", "storeRequest", "incrementQueryCount"} :
                 ~Settled(c, fn, "throw"))
         => /\ c.response.status = 200
            /\ c.response.signature = c.signature

C19_Witness ==
  \E s \in Slots :
    LET c == call[s] IN
    /\ c.queryCount.status = "rejected"
    /\ c.blockNum.status = "rejected"
    /\ Settled(c, "storeRequest", "false")
    /\ Settled(c, "incrementQueryCount", "false")
    /\ c.response.status = 200
    /\ c.response.signature = computeBlindedSignature(c.body.blindedQueryPhoneNumber)

C20_Step ==
  /\ \A a \in Accounts : counter'[a] >= counter[a]
  /\ requestTable \subseteq requestTable'
  /\ counter' # counter =>
       \E s \in Slots :
         /\ call[s].pc = "incrementQueryCount"
         /\ Settled(call'[s], "incrementQueryCount", "true")
         /\ counter' = [counter EXCEPT ![call[s].body.account] = @ + 1]
  /\ requestTable' # requestTable =>
       \E s \in Slots :
         /\ call[s].pc = "storeRequest"
         /\ Settled(call'[s], "storeRequest", "true")
         /\ requestTable' = requestTable \cup {call[s].body}

\* C20: in every step of every interleaving no account's counter decreases
\* and no request record disappears; the counter changes only by one, in
\* the step of an incrementQueryCount that resolved to true, and the table
\* only by the record of a storeRequest that resolved to true.
C20_DurableStateIsMonotonic == [][C20_Step]_vars

C20_Witness ==
  \E s \in Slots, t \in Slots :
    /\ call[s].pc = "incrementQueryCount"
    /\ call[t].pc = "storeRequest"
    /\ Cardinality(requestTable) = 2
    /\ counter[call[s].body.account] > 0

\* no handler invocation is in flight
Quiescent == \A s \in Slots : call[s].pc \in {"idle", "done"}

C22_RejectionCarriesQuotaAndHeight ==
  \A s \in Slots :
    LET c == call[s] IN
    c.response.status = 403 =>
      /\ c.queryCount.status = "fulfilled"
      /\ c.response.performedQueryCount = c.queryCount.value.performedQueryCount
      /\ c.response.totalQuota = c.queryCount.value.totalQuota
      /\ c.blockNum.status = "fulfilled" =>
           c.response.blockNumber = c.blockNum.value

C22_Witness ==
  \E s \in Slots :
    /\ call[s].response.status = 403
    /\ call[s].response.performedQueryCount = MaxQuota
    /\ call[s].response.totalQuota = MaxQuota
    /\ call[s].response.blockNumber = 500

\* C23: the counter is incremented at most once per request fingerprint: of
\* two calls with the same body, concurrent or one after the other, at most
\* one has an incrementQueryCount that resolved to true.
C23_OnceCountedPerFingerprint ==
  \A s \in Slots, t \in Slots :
    (/\ s # t
     /\ call[s].body = call[t].body
     /\ Settled(call[s], "incrementQueryCount", "true"))
    => ~Settled(call[t], "incrementQueryCount", "true")

\* what a finished call is answered with, from the results of every
\* collaborator but the chain-height lookup
StatusFromOtherInputs(c) ==
  IF ~isValidGetSignatureInput(c.body) THEN 400
  ELSE IF Settled(c, "authenticateUser", "throw") THEN 500
  ELSE IF Settled(c, "authenticateUser", "false") THEN 401
  ELSE IF /\ c.queryCount.status = "fulfilled"
          /\ c.queryCount.value.performedQueryCount >= c.queryCount.value.totalQuota
       THEN 403
  ELSE IF \E fn \in {"computeBlindedSignature", "getRequestExists",
                     "storeRequest", "incrementQueryCount"} : Settled(c, fn, "throw")
       THEN 500
  ELSE 200

\* the collaborator calls and results of a call, and its tags but the
\* contract-read tag
Calls(c) == SelectSeq(c.log, LAMBDA e : e[1] # "inc")
OtherTags(c) == SelectSeq(c.errorMsgs, LAMBDA msg : msg # CONTRACT_GET_FAILURE)

C24_Function ==
  \A s \in Slots :
    LET c == call[s] IN
    c.pc = "done" =>
      /\ c.response.status = StatusFromOtherInputs(c)
      /\ c.response.signature =
           IF StatusFromOtherInputs(c) = 200
           THEN computeBlindedSignature(c.body.blindedQueryPhoneNumber)
           ELSE Undefined
      /\ "requestTable" \in c.wrote <=> Settled(c, "storeRequest", "true")
      /\ "counter" \in c.wrote <=> Settled(c, "incrementQueryCount", "true")
      /\ c.response.status = 200 =>
           c.response.success
             <=> (OtherTags(c) = <<>> /\ ~HasTag(c, CONTRACT_GET_FAILURE))

\* the step that joins the lookups, replayed with each other result of the
\* chain-height lookup
C24_Replayed ==
  \A s \in Slots :
    (call[s].pc = "allSettled" /\ call'[s].pc # "allSettled") =>
      \A result \in {Rejected} \cup {Fulfilled(h) : h \in BlockHeights} :
        LET engine == IF Settled(call'[s], "computeBlindedSignature", "throw")
                      THEN "throw" ELSE "ok"
            other == quotaGate(noteBlockchainError(readSettled(
                       [call[s] EXCEPT !.blockNum = result])), engine)
        IN /\ other.pc = call'[s].pc
           /\ other.response.status = call'[s].response.status
           /\ other.signature = call'[s].signature
           /\ other.performedQueryCount = call'[s].performedQueryCount
           /\ other.totalQuota = call'[s].totalQuota
           /\ other.wrote = call'[s].wrote
           /\ Calls(other) = Calls(call'[s])
           /\ OtherTags(other) = OtherTags(call'[s])
           /\ requestTable' = requestTable
           /\ counter' = counter

\* C24: the result of the chain-height lookup decides neither the status,
\* nor the signature, nor the collaborators called, nor the writes of a
\* call: they are a function of the other results, and replaying the join
\* with any other height result changes only blockNumber and the
\* contract-read tag (hence success and error).
C24_HeightNeverSteers == [](C24_Function) /\ [][C24_Replayed]_vars

C24_Witness ==
  \E s \in Slots :
    LET c == call[s] IN
    /\ c.pc = "done"
    /\ c.blockNum.status = "rejected"
    /\ c.queryCount.status = "fulfilled"
    /\ c.response.status = 200
    /\ c.response.blockNumber = -1
    /\ ~c.response.success
    /\ OtherTags(c) = <<>>
    /\ c.wrote = {"requestTable", "counter"}

\* the one tag of a terminal rejection
RejectionTag(status) ==
  IF status = 400 THEN INVALID_INPUT
  ELSE IF status = 401 THEN UNAUTHENTICATED_USER
  ELSE IF status = 403 THEN EXCEEDED_QUOTA
  ELSE UNKNOWN_ERROR

\* C25: a response with status 400, 401, 403 or 500 carries the one tag of
\* its cause and none of the tags the call collected before; a 403 after a
\* failed chain-height lookup carries 'exceeded quota' without the
\* contract-read tag.
C25_RejectionReportsSingleCause ==
  \A s \in Slots :
    LET c == call[s] IN
    /\ c.response.status \in {400, 401, 403, 500} =>
         /\ c.response.error = RejectionTag(c.response.status)
         /\ ~c.response.success
         /\ c.response.signature = Undefined
    /\ (c.response.status = 403 /\ c.blockNum.status = "rejected") =>
         /\ HasTag(c, CONTRACT_GET_FAILURE)
         /\ c.response.error = EXCEEDED_QUOTA
         /\ ~CarriesTag(c.response, CONTRACT_GET_FAILURE)

C25_Witness ==
  \E s \in Slots :
    LET c == call[s] IN
    /\ c.response.status = 403
    /\ c.blockNum.status = "rejected"
    /\ c.errorMsgs = <<CONTRACT_GET_FAILURE>>
    /\ c.response.error = "exceeded quota"

\* the count a call holds after the join: the one the quota lookup was
\* fulfilled with, the sentinel of line 94 otherwise
CountRead(c) ==
  IF c.queryCount.status = "fulfilled"
  THEN c.queryCount.value.performedQueryCount ELSE -1

\* C26: the performedQueryCount of a 200 response is the count read plus one
\* exactly when the request was no duplicate and incrementQueryCount resolved
\* to true; for a duplicate and after a false incrementQueryCount it is the
\* count read, unchanged.
C26_LocalCountFollowsIncrement ==
  \A s \in Slots :
    LET c == call[s]
        counted == /\ Settled(c, "getRequestExists", "false")
                   /\ Settled(c, "incrementQueryCount", "true")
    IN c.response.status = 200 =>
         /\ counted <=> c.response.performedQueryCount = CountRead(c) + 1
         /\ ~counted <=> c.response.performedQueryCount = CountRead(c)
         /\ Settled(c, "getRequestExists", "true") =>
              c.response.performedQueryCount = CountRead(c)
         /\ Settled(c, "incrementQueryCount", "false") =>
              c.response.performedQueryCount = CountRead(c)

C26_Witness ==
  \E s \in Slots :
    LET c == call[s] IN
    /\ c.response.status = 200
    /\ c.queryCount.status = "fulfilled"
    /\ CountRead(c) = 1
    /\ Settled(c, "storeRequest", "true")
    /\ Settled(c, "incrementQueryCount", "false")
    /\ c.response.performedQueryCount = 1

\* C27: a call whose authenticateUser resolved to true has issued both the
\* quota lookup and the chain-height lookup; it passes the join only when
\* both have settled, and then holds the quota of the quota lookup alone and
\* the height of the height lookup alone, the sentinel for the one that was
\* rejected, in each of the four combinations.
C27_LookupsJoinIndependently ==
  \A s \in Slots :
    LET c == call[s] IN
    /\ Settled(c, "authenticateUser", "true") =>
         /\ Count(c, Invoke("getRemainingQueryCount")) = 1
         /\ Count(c, Invoke("getBlockNumber")) = 1
    /\ PastGate(c) =>
         /\ c.queryCount.status \in {"fulfilled", "rejected"}
         /\ c.blockNum.status \in {"fulfilled", "rejected"}
         /\ c.totalQuota = IF c.queryCount.status = "fulfilled"
                           THEN c.queryCount.value.totalQuota ELSE -1
         /\ c.performedQueryCount \in {CountRead(c), CountRead(c) + 1}
         /\ c.blockNumber = IF c.blockNum.status = "fulfilled"
                            THEN c.blockNum.value ELSE -1
    /\ \A fn \in {"computeBlindedSignature", "getRequestExists",
                  "storeRequest", "incrementQueryCount"} :
         Invoked(c, fn) => c.queryCount # Pending /\ c.blockNum # Pending

C27_Witness ==
  \E s \in Slots :
    LET c == call[s] IN
    /\ PastGate(c)
    /\ c.queryCount.status = "rejected"
    /\ c.blockNum = Fulfilled(501)
    /\ c.response.status = 200
    /\ c.response.blockNumber = 501
    /\ c.response.totalQuota = -1

TagCount(c, tag) == Cardinality({i \in 1..Len(c.errorMsgs) : c.errorMsgs[i] = tag})

\* C28: a call past the join has the contract-read tag once and has
\* incremented the blockchain-error counter once when the quota lookup, the
\* chain-height lookup or both were rejected, and has neither when both were
\* fulfilled; before the join it has neither.
C28_ReadFailureNotedOnce ==
  \A s \in Slots :
    LET c == call[s]
        failed == c.queryCount.status = "rejected" \/ c.blockNum.status = "rejected"
        noted == IF PastGate(c) /\ failed THEN 1 ELSE 0
    IN /\ TagCount(c, CONTRACT_GET_FAILURE) = noted
       /\ Count(c, Metric("blockchainErrors")) = noted

C28_Witness ==
  \E s \in Slots :
    LET c == call[s] IN
    /\ PastGate(c)
    /\ c.queryCount.status = "rejected"
    /\ c.blockNum.status = "rejected"
    /\ TagCount(c, CONTRACT_GET_FAILURE) = 1
    /\ Count(c, Metric("blockchainErrors")) = 1
    /\ c.response.status = 200

C29_Sent ==
  \A s \in Slots :
    LET c == call[s] IN
    /\ c.pc = "done" <=> c.response # NoResponse
    /\ c.response # NoResponse => c.response.status \in {400, 401, 403, 500, 200}

\* a call that has sent its response takes no further step: its record
\* stays as it is until the slot receives the next request, and the table
\* and the counters are not written on its behalf
C29_Final ==
  \A s \in Slots :
    call[s].response # NoResponse =>
      \/ call'[s] = call[s]
      \/ /\ nCalls' = nCalls + 1
         /\ call'[s] = validate([IdleCall EXCEPT !.body = call'[s].body])
         /\ requestTable' = requestTable
         /\ counter' = counter

\* C29: a call sends one response, with status 400, 401, 403, 500 or 200: it
\* has a response exactly when it has ended, and once the response is sent
\* nothing more is done for the call and the response is not replaced.
C29_OneResponsePerCall == [](C29_Sent) /\ [][C29_Final]_vars

C29_Witness ==
  \E s \in Slots :
    /\ call[s].pc = "done"
    /\ call[s].response.status = 403
    /\ nCalls = MaxCalls

\* ------------------------------------------------------------ liveness
\* Concurrent calls whose collaborators may return, fail or throw.  Of the
\* collaborators of the call in slot 1 every one eventually settles, and the
\* continuation of a settled await is eventually run; of the calls in the
\* other slots nothing is assumed: they may stay suspended for ever.
LiveBodies == {b \in ValidBodies : b.account = "0xAA" /\ b.blindedQueryPhoneNumber = "B1"}

LiveStep(s) ==
  \/ \E requestBody \in LiveBodies :
       ReceiveRequest(s, requestBody) /\ UNCHANGED previous
  \/ Settles(s)

LiveNext == \E s \in Slots : LiveStep(s)

LiveSpec == Init /\ [][LiveNext]_vars /\ WF_vars(Settles(1))

InFlight(s) == call[s].pc \notin {"idle", "done"}

\* C30: when every collaborator call of a handler invocation eventually
\* returns or throws, the invocation eventually sends its response, whatever
\* the other invocations in flight do, also when they stay suspended at a
\* collaborator for ever.
C30_EveryCallIsAnswered ==
  InFlight(1) ~> (call[1].pc = "done" /\ call[1].response # NoResponse)

C30_Witness ==
  /\ call[1].pc = "done"
  /\ call[1].response.status = 200
  /\ InFlight(2)
  /\ call[2].body = call[1].body
  /\ call[2].pc = "incrementQueryCount"
  /\ Invoked(call[1], "incrementQueryCount")

\* C31: a 200 response after a fulfilled quota lookup reports a
\* performedQueryCount that is at most its totalQuota: the gate lets through
\* only a count below the quota and the call adds at most one to it.
C31_ReportedCountWithinQuota ==
  \A s \in Slots :
    LET c == call[s] IN
    (c.response.status = 200 /\ c.queryCount.status = "fulfilled") =>
      /\ c.queryCount.value.performedQueryCount < c.queryCount.value.totalQuota
      /\ c.response.totalQuota = c.queryCount.value.totalQuota
      /\ c.response.performedQueryCount <= c.response.totalQuota

C31_Witness ==
  \E s \in Slots :
    LET c == call[s] IN
    /\ c.response.status = 200
    /\ c.queryCount.status = "fulfilled"
    /\ Settled(c, "incrementQueryCount", "true")
    /\ c.response.totalQuota = MaxQuota
    /\ c.response.performedQueryCount = c.response.totalQuota

\* C32: in a response the duplicate-request tag comes with neither the
\* store-failure tag nor the increment-failure tag, no tag occurs twice and
\* there are at most three tags.
C32_TagsAreExclusiveAndUnique ==
  \A s \in Slots :
    LET c == call[s]
        tags == {CONTRACT_GET_FAILURE, DUPLICATE_REQUEST_TO_GET_PARTIAL_SIG,
                 FAILURE_TO_STORE_REQUEST, FAILURE_TO_INCREMENT_QUERY_COUNT}
    IN /\ HasTag(c, DUPLICATE_REQUEST_TO_GET_PARTIAL_SIG) =>
            /\ ~HasTag(c, FAILURE_TO_STORE_REQUEST)
            /\ ~HasTag(c, FAILURE_TO_INCREMENT_QUERY_COUNT)
       /\ \A tag \in tags : TagCount(c, tag) <= 1
       /\ \A i \in 1..Len(c.errorMsgs) : c.errorMsgs[i] \in tags
       /\ Len(c.errorMsgs) <= 3
       /\ c.response.status = 200 =>
            /\ c.response.error = Separated(c.errorMsgs)
            /\ ~(CarriesTag(c.response, DUPLICATE_REQUEST_TO_GET_PARTIAL_SIG)
                   /\ CarriesTag(c.response, FAILURE_TO_INCREMENT_QUERY_COUNT))
            /\ ~(CarriesTag(c.response, DUPLICATE_REQUEST_TO_GET_PARTIAL_SIG)
                   /\ CarriesTag(c.response, FAILURE_TO_STORE_REQUEST))
       /\ c.response.status \in {400, 401, 403, 500} =>
            c.response.error = RejectionTag(c.response.status)

C32_Witness ==
  \E s \in Slots :
    LET c == call[s] IN
    /\ c.response.status = 200
    /\ Len(c.errorMsgs) = 2
    /\ c.errorMsgs[2] = DUPLICATE_REQUEST_TO_GET_PARTIAL_SIG
    /\ c.response.error = "contract read failure, duplicate request"

\* Requests handled one after the other while the chain keeps every
\* account's quota constant and every quota lookup is fulfilled with the
\* account's durable counter; the other collaborators answer as they may.
\* The signatures served for requests that were no duplicates are counted.
QuotaInit ==
  /\ Started
  /\ totalQuotaOf \in [Accounts -> 0..MaxQuota]

QuotaStep(s) ==
  \/ \E requestBody \in ValidBodies :
       ReceiveRequest(s, requestBody) /\ UNCHANGED previous
  \/ \E outcome \in {"true", "false", "throw"} : AuthenticateUserSettles(s, outcome)
  \/ GetRemainingQueryCountSettles(
       s, Fulfilled(QuotaStatus(counter[call[s].body.account],
                                totalQuotaOf[call[s].body.account])))
  \/ \E result \in {Rejected} \cup {Fulfilled(h) : h \in BlockHeights} :
       GetBlockNumberSettles(s, result)
  \/ \E engine \in {"ok", "throw"} : AllSettled(s, engine)
  \/ \E outcome \in {"true", "false", "throw"} : GetRequestExistsSettles(s, outcome)
  \/ \E outcome \in {"true", "false", "throw"} : StoreRequestSettles(s, outcome)
  \/ \E outcome \in {"true", "false", "throw"} :
       /\ IncrementQueryCountSettles(s, outcome)
       /\ issued' = IF outcome # "throw"
                    THEN [issued EXCEPT ![call[s].body.account] = @ + 1]
                    ELSE issued

QuotaNext == QuotaStep(1)

QuotaSpec == QuotaInit /\ [][QuotaNext]_vars

\* C33, as stated: with calls one after the other, every quota lookup
\* fulfilled with the durable counter and the quota constant, no account's
\* counter exceeds its quota and no account is served more signatures for
\* requests that are no duplicates than its quota less the initial count, 0.
C33_Original ==
  \A a \in Accounts :
    /\ counter[a] <= totalQuotaOf[a]
    /\ issued[a] <= totalQuotaOf[a] - 0

\* C33, amended: under the same conditions no account's counter exceeds its
\* quota, and at most quota less the initial count, 0, of the calls served
\* have an incrementQueryCount that resolved to true; every signature served
\* for a request that is no duplicate beyond those comes from a call whose
\* incrementQueryCount resolved to false, and these are not bounded by the
\* quota.
C33_CountedWithinQuota ==
  \A a \in Accounts :
    /\ counter[a] <= totalQuotaOf[a]
    /\ counter[a] = 0 + acknowledged[a]
    /\ acknowledged[a] <= totalQuotaOf[a] - 0
    /\ acknowledged[a] <= issued[a]
    /\ \A s \in Slots :
         (call[s].body.account = a /\ call[s].response.status = 200) =>
           call[s].response.performedQueryCount <= totalQuotaOf[a]

C33_Witness ==
  \E a \in Accounts :
    /\ totalQuotaOf[a] = 1
    /\ counter[a] = 1
    /\ issued[a] = 3
    /\ Quiescent

\* C34, as stated: the resubmission of a call whose storeRequest resolved to
\* true and whose incrementQueryCount resolved to false is reported as a
\* duplicate and increments nothing.
C34_Original ==
  \A s \in Slots :
    LET c == call[s] IN
    (/\ previous.status = 200
     /\ previous.stored
     /\ ~previous.counted
     /\ RanClean(c)) =>
      /\ c.response.status = 200
      /\ CarriesTag(c.response, DUPLICATE_REQUEST_TO_GET_PARTIAL_SIG)
      /\ "counter" \notin c.wrote

\* C34, amended: the resubmission of a call whose storeRequest resolved to
\* true and whose incrementQueryCount resolved to false never invokes
\* storeRequest or incrementQueryCount, so the fingerprint is not counted;
\* its exists check, when it gets there and the check answers, resolves to
\* true, and when it is answered 200 it carries the duplicate tag.  (It is
\* answered 403 when the quota gate rejects it.)
C34_StoredUncountedStaysUncounted ==
  \A s \in Slots :
    LET c == call[s] IN
    (/\ previous.status = 200
     /\ previous.stored
     /\ ~previous.counted
     /\ c.pc # "idle"
     /\ c.body = previous.body) =>
      /\ c.body \in requestTable
      /\ ~Settled(c, "getRequestExists", "false")
      /\ ~Invoked(c, "storeRequest")
      /\ ~Invoked(c, "incrementQueryCount")
      /\ c.wrote = {}
      /\ c.response.status = 200 =>
           /\ CarriesTag(c.response, DUPLICATE_REQUEST_TO_GET_PARTIAL_SIG)
           /\ ~c.response.success
           /\ c.response.performedQueryCount = CountRead(c)

C34_Witness ==
  \E s \in Slots :
    LET c == call[s] IN
    /\ previous.status = 200
    /\ previous.stored
    /\ ~previous.counted
    /\ c.response.status = 200
    /\ c.response.error = DUPLICATE_REQUEST_TO_GET_PARTIAL_SIG
    /\ counter[c.body.account] = 0

\* ---------------------------------------------------------------------
\* getFirstValidBlockscoutResponse (lines 483-500)

\* line 483
MAXIMAL_BLOCKSCOUT_TIMEOUT == 15000

\* line 486
BLOCKSCOUT_FETCH_RETRY_TIME == 150

\* line 490: a division of numbers; 150 divides 15000, so the quotient is the
\* integer the floating-point division gives
attempts == MAXIMAL_BLOCKSCOUT_TIMEOUT \div BLOCKSCOUT_FETCH_RETRY_TIME

\* what fetchBlockscoutTxInfo (lines 464-467) may give: a body whose status is
\* the string '1', another string, the number 1 or missing; the body null; or
\* a rejection of fetch or of response.json()
JsonStatuses ==
  {StatusOne, <<"string", "0">>, <<"number", "1">>, <<"undefined", "">>}
NullBody == <<"null", "">>
FetchRejects == <<"throw", "">>
FetchOutcomes == JsonStatuses \cup {NullBody, FetchRejects}

moreAttempts_Inclusive(attemptId) == attemptId <= attempts

\* line 491: the loop test
moreAttempts(attemptId) == attemptId < attempts

\* line 493: json.status !== '1', which compares type and value
statusIsNotOne(json) == json.status # StatusOne

\* lines 491-492 and 499: the loop test, then the next fetch or the return
loop(p) ==
  IF moreAttempts(p.attemptId)
  THEN [p EXCEPT !.pc = "fetchBlockscoutTxInfo", !.fetches = @ + 1]
  ELSE [p EXCEPT !.pc = "returned", !.result = <<NullJson, "null">>]

\* lines 492-497: the fetch settles
fetched(p, outcome) ==
  IF outcome \in {NullBody, FetchRejects}
  THEN [p EXCEPT !.pc = "rejected"]
  ELSE LET json == [status |-> outcome, id |-> p.fetches]
           q == [p EXCEPT !.json = json,
                          !.valid = @ + (IF outcome = StatusOne THEN 1 ELSE 0)]
       IN IF statusIsNotOne(json)
          THEN [q EXCEPT !.pc = "sleep", !.sleeps = @ + 1]
          ELSE [q EXCEPT !.pc = "returned", !.result = <<json, "Date.now()">>]

\* lines 489-492: the call, up to the first await
getFirstValidBlockscoutResponse ==
  /\ poll.pc = "idle"
  /\ poll' = loop([poll EXCEPT !.attemptId = 0])
  /\ UNCHANGED <<call, requestTable, counter, nCalls, previous, acknowledged,
                 issued, totalQuotaOf>>

FetchBlockscoutTxInfoSettles(outcome) ==
  /\ poll.pc = "fetchBlockscoutTxInfo"
  /\ outcome \in FetchOutcomes
  /\ poll' = fetched(poll, outcome)
  /\ UNCHANGED <<call, requestTable, counter, nCalls, previous, acknowledged,
                 issued, totalQuotaOf>>

\* lines 494, 491: the sleep is over, attemptId++ and the loop test
SleepSettles ==
  /\ poll.pc = "sleep"
  /\ poll' = loop([poll EXCEPT !.attemptId = @ + 1])
  /\ UNCHANGED <<call, requestTable, counter, nCalls, previous, acknowledged,
                 issued, totalQuotaOf>>

BlockscoutNext ==
  \/ getFirstValidBlockscoutResponse
  \/ \E outcome \in FetchOutcomes : FetchBlockscoutTxInfoSettles(outcome)
  \/ SleepSettles

\* Every fetch and every sleep the function awaits settles.
BlockscoutSpec == Init /\ [][BlockscoutNext]_vars /\ WF_vars(BlockscoutNext)

PollOver == poll.pc \in {"returned", "rejected"}

PollWithinAttempts ==
  /\ attempts = 100
  /\ poll.fetches <= 100
  /\ poll.attemptId <= attempts
  /\ poll.sleeps <= poll.fetches
  /\ poll.valid > 0 => poll.pc = "returned"
  /\ (poll.pc = "returned" /\ poll.result[2] # "null") =>
       /\ poll.result = <<poll.json, "Date.now()">>
       /\ poll.json.status = StatusOne
       /\ poll.json.id = poll.fetches
       /\ poll.valid = 1
       /\ poll.sleeps = poll.fetches - 1
  /\ (poll.pc = "returned" /\ poll.result[2] = "null") =>
       /\ poll.result = <<NullJson, "null">>
       /\ poll.valid = 0
       /\ poll.fetches = attempts
       /\ poll.sleeps = attempts
       /\ statusIsNotOne(poll.json)

PollStep ==
  /\ poll'.sleeps > poll.sleeps =>
       /\ poll.pc = "fetchBlockscoutTxInfo"
       /\ poll'.sleeps = poll.sleeps + 1
       /\ poll'.json.id = poll.fetches
       /\ poll'.json.status # StatusOne
  /\ poll'.fetches > poll.fetches =>
       /\ poll'.fetches = poll.fetches + 1
       /\ poll.valid = 0
       /\ poll.pc \in {"idle", "sleep"}
       /\ poll.sleeps = poll.fetches
  /\ PollOver => poll' = poll

\* C35: getFirstValidBlockscoutResponse, when its fetches and sleeps settle,
\* comes to an end after at most MAXIMAL_BLOCKSCOUT_TIMEOUT /
\* BLOCKSCOUT_FETCH_RETRY_TIME = 100 fetches; it returns the first response
\* whose status is the string '1' together with the time and fetches no
\* more, sleeps only after a response with another status, once per such
\* response, and returns [null, null] when all 100 fetches gave another status.
C35_PollEndsWithinAttempts ==
  /\ []PollWithinAttempts
  /\ [][PollStep]_vars
  /\ (poll.pc # "idle") ~> PollOver

C35_Witness ==
  /\ poll.pc = "returned"
  /\ poll.result = <<NullJson, "null">>
  /\ poll.fetches = 100
  /\ poll.sleeps = 100
  /\ poll.json.status = <<"number", "1">>

====
